---- MODULE Spec2Model ----
(***************************************************************************)
(* Model of the documentation crawler (src/app.py, CapillaryDocScraper),   *)
(* of the keyword search (src/server.py, DocBot.search_docs) and of the    *)
(* chat endpoint's session map (src/server.py, chat).                      *)
(*                                                                         *)
(* A string of the program is modelled as a sequence of tokens; a token    *)
(* stands for a run of characters.  The characters the code splits on      *)
(* ('#', '?', '/', "//" and, in the search, ' ') are tokens of their own,  *)
(* so that splitting, joining and substring tests are computed, not        *)
(* assumed.                                                                *)
(***************************************************************************)
EXTENDS Integers, Sequences, FiniteSets, TLC

VARIABLES
    \* ---- CapillaryDocScraper (src/app.py) ----
    visited_urls,    \* self.visited_urls
    scraped_data,    \* self.scraped_data
    urls_to_visit,   \* local of scrape_documentation: the frontier
    pages_scraped,   \* local of scrape_documentation: the budget counter
    max_pages,       \* argument of the running call
    pc,              \* "idle" | "loop" | "done" : position of the scraper
    run,             \* number of scrape_documentation calls made so far
    current_url,     \* the URL popped by the last loop iteration
    outcome,         \* what the last step did (see Outcomes)
    fetches,         \* session.get calls issued by the running call
    failed,          \* URLs whose scrape raised in the running call
    all_fresh,       \* every fetch of the running call returned new links
    data_at_start,   \* len(self.scraped_data) when the running call began
    \* ---- DocBot.search_docs (src/server.py) ----
    docs_data,       \* bot.docs_data
    query,           \* argument of the last search_docs call
    max_results,     \* argument of the last search_docs call
    search_result,   \* its return value, as corpus positions
    searched,        \* a search_docs call has returned
    \* ---- chat endpoint (src/server.py) ----
    sessions,        \* the module-level sessions dict
    req,             \* the requests being handled, one per server thread
    next_uuid,       \* uuid.uuid4() draws made so far
    log              \* per request: what it did to the session map

crawlVars == <<visited_urls, scraped_data, urls_to_visit, pages_scraped, max_pages,
               pc, run, current_url, outcome, fetches, failed, all_fresh, data_at_start>>
searchVars == <<docs_data, query, max_results, search_result, searched>>
chatVars == <<sessions, req, next_uuid, log>>
vars == <<crawlVars, searchVars, chatVars>>

----------------------------------------------------------------------------
(* Bounds *)

MaxPages == 3      \* largest max_pages argument tried
MaxRuns == 2       \* calls of scrape_documentation on one scraper object
MaxDocs == 4       \* records in the loaded corpus
MaxResults == 3    \* largest max_results argument tried
MaxRequests == 3   \* POST /api/chat requests, each on its own server thread

----------------------------------------------------------------------------
(* Generic sequence helpers *)

Range(s) == {s[i] : i \in 1..Len(s)}

\* position of the first occurrence of token t in s, 0 if none
FirstIdx(s, t) ==
    IF \E i \in 1..Len(s) : s[i] = t
    THEN CHOOSE i \in 1..Len(s) : s[i] = t /\ \A j \in 1..(i-1) : s[j] # t
    ELSE 0

\* position of the last occurrence of token t in s, 0 if none
LastIdx(s, t) ==
    IF \E i \in 1..Len(s) : s[i] = t
    THEN CHOOSE i \in 1..Len(s) : s[i] = t /\ \A j \in (i+1)..Len(s) : s[j] # t
    ELSE 0

\* str.split(t)[0]
SplitFirst(s, t) ==
    IF FirstIdx(s, t) = 0 THEN s ELSE SubSeq(s, 1, FirstIdx(s, t) - 1)

\* what follows the first t in s (empty if t does not occur)
AfterFirst(s, t) ==
    IF FirstIdx(s, t) = 0 THEN <<>> ELSE SubSeq(s, FirstIdx(s, t) + 1, Len(s))

----------------------------------------------------------------------------
(* urllib.parse as used by src/app.py *)

Schemes == {"https:", "http:"}
Delims == {"/", "?", "#"}

\* the URL the scraper is constructed with (default argument of __init__)
base_url == <<"https:", "//", "docs", "/">>

\* urlparse(url): scheme, netloc, path, query, fragment
urlparse(url) ==
    LET scheme == IF Len(url) >= 1 /\ url[1] \in Schemes THEN <<url[1]>> ELSE <<>>
        r0 == SubSeq(url, Len(scheme) + 1, Len(url))
        hasNet == Len(r0) >= 1 /\ r0[1] = "//"
        r1 == IF hasNet THEN Tail(r0) ELSE r0
        cut == IF \E i \in 1..Len(r1) : r1[i] \in Delims
               THEN CHOOSE i \in 1..Len(r1) :
                        r1[i] \in Delims /\ \A j \in 1..(i-1) : r1[j] \notin Delims
               ELSE Len(r1) + 1
        netloc == IF hasNet THEN SubSeq(r1, 1, cut - 1) ELSE <<>>
        r2 == IF hasNet THEN SubSeq(r1, cut, Len(r1)) ELSE r1
        r3 == SplitFirst(r2, "#")
    IN  [scheme |-> scheme, netloc |-> netloc, path |-> SplitFirst(r3, "?"),
         query |-> AfterFirst(r3, "?"), fragment |-> AfterFirst(r2, "#")]

\* urlsplit raises ValueError("Invalid IPv6 URL") on an unbalanced bracket in the netloc
RaisesValueError(url) == "[" \in Range(urlparse(url).netloc)

\* urlunparse(parts)
urlunparse(p) ==
    p.scheme
    \o (IF p.netloc # <<>>
        THEN <<"//">> \o p.netloc
             \o (IF p.path # <<>> /\ p.path[1] # "/" THEN <<"/">> ELSE <<>>)
        ELSE <<>>)
    \o p.path
    \o (IF p.query # <<>> THEN <<"?">> \o p.query ELSE <<>>)
    \o (IF p.fragment # <<>> THEN <<"#">> \o p.fragment ELSE <<>>)

\* urljoin(base, url), for a base with scheme and netloc and references without dot segments
urljoin(base, url) ==
    LET b == urlparse(base)
        u == urlparse(url)
        scheme == IF u.scheme = <<>> THEN b.scheme ELSE u.scheme
    IN  IF url = <<>> THEN base
        ELSE IF scheme # b.scheme THEN url
        ELSE IF u.netloc # <<>> THEN urlunparse([u EXCEPT !.scheme = scheme])
        ELSE IF u.path = <<>>
             THEN urlunparse([scheme |-> scheme, netloc |-> b.netloc, path |-> b.path,
                              query |-> IF u.query = <<>> THEN b.query ELSE u.query,
                              fragment |-> u.fragment])
        ELSE IF u.path[1] = "/"
             THEN urlunparse([u EXCEPT !.scheme = scheme, !.netloc = b.netloc])
        ELSE urlunparse([u EXCEPT !.scheme = scheme, !.netloc = b.netloc,
                                  !.path = SubSeq(b.path, 1, LastIdx(b.path, "/")) \o u.path])

----------------------------------------------------------------------------
(* CapillaryDocScraper *)

\* is_valid_url(url)
is_valid_url(url) == urlparse(url).netloc = urlparse(base_url).netloc

\* mutant of clean_url: only the fragment is stripped
clean_url_keeps_query(absolute_url) == SplitFirst(absolute_url, "#")

\* absolute_url.split('#')[0].split('?')[0]
clean_url(absolute_url) == SplitFirst(SplitFirst(absolute_url, "#"), "?")

\* the links list get_links builds from the hrefs of the page, in document order
RECURSIVE collect_links(_, _, _)
collect_links(hrefs, url, visited) ==
    IF hrefs = <<>> THEN <<>>
    ELSE LET clean == clean_url(urljoin(url, Head(hrefs)))
         IN  (IF is_valid_url(clean) /\ clean \notin visited THEN <<clean>> ELSE <<>>)
             \o collect_links(Tail(hrefs), url, visited)

\* get_links(soup, current_url): the list returned, unless urljoin raises on some href
get_links(hrefs, url, visited) ==
    IF \E i \in 1..Len(hrefs) : RaisesValueError(hrefs[i])
    THEN [raised |-> TRUE, links |-> <<>>]
    ELSE [raised |-> FALSE, links |-> collect_links(hrefs, url, visited)]

\* extract_content(soup, url): the 'url' and 'content' fields of the record
extract_content(page, url) ==
    [url |-> url, content |-> IF page.main = "none" THEN "" ELSE page.main]

\* session.get, raise_for_status or BeautifulSoup raised
RequestError == [main |-> "RequestError", hrefs |-> <<>>]

\* mutant of scrape_page: a URL whose fetch failed is handed back for another try
scrape_page_retries(url, resp, visited, data) ==
    IF url \in visited
    THEN [visited |-> visited, data |-> data, ret |-> <<>>, raised |-> "no", fetched |-> FALSE]
    ELSE IF resp = RequestError
    THEN [visited |-> visited, data |-> data, ret |-> <<url>>, raised |-> "fetch", fetched |-> TRUE]
    ELSE LET content == extract_content(resp, url)
             data1 == IF content.content # "" THEN Append(data, content) ELSE data
             visited1 == visited \cup {url}
             links == get_links(resp.hrefs, url, visited1)
         IN  [visited |-> visited1, data |-> data1, ret |-> links.links,
              raised |-> IF links.raised THEN "links" ELSE "no", fetched |-> TRUE]

\* mutant of scrape_page: the URL is marked visited before the request is made
scrape_page_marks_first(url, resp, visited, data) ==
    IF url \in visited
    THEN [visited |-> visited, data |-> data, ret |-> <<>>, raised |-> "no", fetched |-> FALSE]
    ELSE IF resp = RequestError
    THEN [visited |-> visited \cup {url}, data |-> data, ret |-> <<>>,
          raised |-> "fetch", fetched |-> TRUE]
    ELSE LET content == extract_content(resp, url)
             data1 == IF content.content # "" THEN Append(data, content) ELSE data
             visited1 == visited \cup {url}
             links == get_links(resp.hrefs, url, visited1)
         IN  [visited |-> visited1, data |-> data1, ret |-> links.links,
              raised |-> IF links.raised THEN "links" ELSE "no", fetched |-> TRUE]

\* mutant of scrape_page: the record is stored whatever its content
scrape_page_stores_empty(url, resp, visited, data) ==
    IF url \in visited
    THEN [visited |-> visited, data |-> data, ret |-> <<>>, raised |-> "no", fetched |-> FALSE]
    ELSE IF resp = RequestError
    THEN [visited |-> visited, data |-> data, ret |-> <<>>, raised |-> "fetch", fetched |-> TRUE]
    ELSE LET data1 == Append(data, extract_content(resp, url))
             visited1 == visited \cup {url}
             links == get_links(resp.hrefs, url, visited1)
         IN  [visited |-> visited1, data |-> data1, ret |-> links.links,
              raised |-> IF links.raised THEN "links" ELSE "no", fetched |-> TRUE]

\* scrape_page(url) when the server answers resp: the object's fields afterwards,
\* the value returned, and whether the except branch ran
scrape_page(url, resp, visited, data) ==
    IF url \in visited
    THEN [visited |-> visited, data |-> data, ret |-> <<>>, raised |-> "no", fetched |-> FALSE]
    ELSE IF resp = RequestError
    THEN [visited |-> visited, data |-> data, ret |-> <<>>, raised |-> "fetch", fetched |-> TRUE]
    ELSE LET content == extract_content(resp, url)
             data1 == IF content.content # "" THEN Append(data, content) ELSE data
             visited1 == visited \cup {url}
             links == get_links(resp.hrefs, url, visited1)
         IN  IF links.raised
             THEN [visited |-> visited1, data |-> data1, ret |-> <<>>,
                   raised |-> "links", fetched |-> TRUE]
             ELSE [visited |-> visited1, data |-> data1, ret |-> links.links,
                   raised |-> "no", fetched |-> TRUE]

\* the href attributes a page of the site may carry
Hrefs == {
    <<"/", "a">>,
    <<"b", "?", "q", "#", "f">>,
    <<"#", "f", "?", "q">>,
    <<"//", "evil", "?", "docs">>,
    <<"http:", "//", "docs", "/", "a">>,
    <<"http:", "//", "[", "/">> }

\* a parsed page: the text of its main content root ("none": the page has no
\* <main>, <article> or <div class="content">) and its anchors' hrefs, at most two
Pages ==
    [main : {"none", "text"},
     hrefs : {<<>>} \cup {<<h>> : h \in Hrefs} \cup {<<h, g>> : h \in Hrefs, g \in Hrefs}]

Responses == {RequestError} \cup Pages

Outcomes == {"init", "start", "skip", "ok", "fetch_error", "link_error", "exit"}

\* mutant of loop_condition: the budget test is off by one
loop_condition_inclusive == urls_to_visit # <<>> /\ pages_scraped <= max_pages

\* the loop condition of scrape_documentation
loop_condition == urls_to_visit # <<>> /\ pages_scraped < max_pages

\* mutant of StartRun: every call starts with a visited set of its own
StartRunFresh(n) ==
    /\ pc \in {"idle", "done"}
    /\ run < MaxRuns
    /\ urls_to_visit' = <<base_url>>
    /\ pages_scraped' = 0
    /\ max_pages' = n
    /\ pc' = "loop"
    /\ run' = run + 1
    /\ outcome' = "start"
    /\ fetches' = 0
    /\ failed' = {}
    /\ all_fresh' = TRUE
    /\ data_at_start' = Len(scraped_data)
    /\ visited_urls' = {}
    /\ UNCHANGED <<scraped_data, current_url>>

\* scrape_documentation(max_pages=n): the statements before the loop
StartRun(n) ==
    /\ pc \in {"idle", "done"}
    /\ run < MaxRuns
    /\ urls_to_visit' = <<base_url>>
    /\ pages_scraped' = 0
    /\ max_pages' = n
    /\ pc' = "loop"
    /\ run' = run + 1
    /\ outcome' = "start"
    /\ fetches' = 0
    /\ failed' = {}
    /\ all_fresh' = TRUE
    /\ data_at_start' = Len(scraped_data)
    /\ UNCHANGED <<visited_urls, scraped_data, current_url>>

\* mutant of SkipVisited: a discarded URL costs a budget unit
SkipVisitedSpendsBudget ==
    /\ pc = "loop"
    /\ loop_condition
    /\ Head(urls_to_visit) \in visited_urls
    /\ current_url' = Head(urls_to_visit)
    /\ urls_to_visit' = Tail(urls_to_visit)
    /\ pages_scraped' = pages_scraped + 1
    /\ outcome' = "skip"
    /\ UNCHANGED <<visited_urls, scraped_data, max_pages, pc, run,
                   fetches, failed, all_fresh, data_at_start>>

\* mutant of SkipVisited: the visited URL is looked at but not popped
SkipVisitedKeepsEntry ==
    /\ pc = "loop"
    /\ loop_condition
    /\ Head(urls_to_visit) \in visited_urls
    /\ current_url' = Head(urls_to_visit)
    /\ outcome' = "skip"
    /\ UNCHANGED <<visited_urls, scraped_data, urls_to_visit, pages_scraped, max_pages, pc,
                   run, fetches, failed, all_fresh, data_at_start>>

\* one iteration whose popped URL is already visited: continue
SkipVisited ==
    /\ pc = "loop"
    /\ loop_condition
    /\ Head(urls_to_visit) \in visited_urls
    /\ current_url' = Head(urls_to_visit)
    /\ urls_to_visit' = Tail(urls_to_visit)
    /\ outcome' = "skip"
    /\ UNCHANGED <<visited_urls, scraped_data, pages_scraped, max_pages, pc, run,
                   fetches, failed, all_fresh, data_at_start>>

\* one iteration that calls scrape_page, the server answering resp
ScrapeIteration(resp) ==
    /\ pc = "loop"
    /\ loop_condition
    /\ Head(urls_to_visit) \notin visited_urls
    /\ \E r \in {scrape_page(Head(urls_to_visit), resp, visited_urls, scraped_data)} :
           /\ current_url' = Head(urls_to_visit)
           /\ visited_urls' = r.visited
           /\ scraped_data' = r.data
           /\ urls_to_visit' = Tail(urls_to_visit) \o r.ret
           /\ pages_scraped' = pages_scraped + 1
           /\ fetches' = fetches + (IF r.fetched THEN 1 ELSE 0)
           /\ outcome' = CASE r.raised = "fetch" -> "fetch_error"
                           [] r.raised = "links" -> "link_error"
                           [] OTHER -> "ok"
           /\ failed' = IF r.raised = "no" THEN failed ELSE failed \cup {Head(urls_to_visit)}
           /\ all_fresh' = (all_fresh /\ r.raised = "no" /\ r.ret # <<>>)
    /\ UNCHANGED <<max_pages, pc, run, data_at_start>>

\* the loop condition is false: the call returns
LoopExit ==
    /\ pc = "loop"
    /\ ~loop_condition
    /\ pc' = "done"
    /\ outcome' = "exit"
    /\ UNCHANGED <<visited_urls, scraped_data, urls_to_visit, pages_scraped, max_pages,
                   run, current_url, fetches, failed, all_fresh, data_at_start>>

LoopStep == SkipVisited \/ (\E resp \in Responses : ScrapeIteration(resp)) \/ LoopExit

CrawlInit ==
    /\ visited_urls = {}
    /\ scraped_data = <<>>
    /\ urls_to_visit = <<>>
    /\ pages_scraped = 0
    /\ max_pages = 0
    /\ pc = "idle"
    /\ run = 0
    /\ current_url = <<>>
    /\ outcome = "init"
    /\ fetches = 0
    /\ failed = {}
    /\ all_fresh = TRUE
    /\ data_at_start = 0

SearchIdle ==
    /\ docs_data = <<>>
    /\ query = <<>>
    /\ max_results = 0
    /\ search_result = <<>>
    /\ searched = FALSE

\* a request slot nothing has arrived on
NoRequest == [pc |-> "idle", message |-> "", session_id |-> <<"none", 0>>]
NoLog == [unknown |-> FALSE, created |-> {}, stored |-> {}]

ChatIdle ==
    /\ sessions = <<>>
    /\ req = [t \in 1..MaxRequests |-> NoRequest]
    /\ next_uuid = 0
    /\ log = [t \in 1..MaxRequests |-> NoLog]

Init == CrawlInit /\ SearchIdle /\ ChatIdle

CrawlStep == LoopStep /\ UNCHANGED <<searchVars, chatVars>>

Next ==
    \/ (\E n \in 0..MaxPages : StartRun(n)) /\ UNCHANGED <<searchVars, chatVars>>
    \/ CrawlStep

Spec == Init /\ [][Next]_vars

FairSpec == Init /\ [][Next]_vars /\ WF_vars(CrawlStep)

----------------------------------------------------------------------------
(* Claims about the crawler *)

\* a step of the running call that issued a fetch
FetchStep == fetches' = fetches + 1

\* C1: during a call the budget counter equals the number of fetch attempts and
\* never exceeds max_pages; a call on a fresh scraper in which every fetch
\* succeeded and returned at least one new link ends after exactly max_pages
\* fetch attempts, whatever is left in the frontier.
C1_BudgetCountsFetches ==
    /\ pc \in {"loop", "done"} => pages_scraped = fetches /\ pages_scraped <= max_pages
    /\ pc = "done" /\ run = 1 /\ all_fresh => fetches = max_pages

C1_Witness ==
    /\ pc = "done" /\ run = 1 /\ all_fresh
    /\ max_pages = MaxPages /\ fetches = MaxPages
    /\ Len(urls_to_visit) >= 2

\* C2: an iteration whose dequeued URL is already visited only discards it (no
\* fetch, no budget unit), and no fetch is ever issued for a visited URL.
C2_VisitedNeverRefetched ==
    [][ /\ (pc = "loop" /\ loop_condition /\ Head(urls_to_visit) \in visited_urls)
            => /\ fetches' = fetches
               /\ pages_scraped' = pages_scraped
               /\ urls_to_visit' = Tail(urls_to_visit)
               /\ visited_urls' = visited_urls
        /\ FetchStep => current_url' \notin visited_urls ]_vars

C2_Witness ==
    /\ outcome = "skip" /\ run = 1
    /\ current_url # base_url /\ current_url \in visited_urls
    /\ pages_scraped >= 2

\* C3 as claimed: once a fetch of a URL has failed, that URL is not fetched again
\* during the same call.
C3_FailedNeverFetchedAgain ==
    [][ FetchStep => current_url' \notin failed ]_vars

\* C3 as amended: a failing iteration removes the URL's frontier entry, enqueues
\* nothing and leaves the loop running (no retry on the spot, nothing raised); a
\* URL that failed is fetched again only while it is unvisited, through another
\* frontier entry of it.
C3_FailureNotRetriedOnTheSpot ==
    [][ /\ (FetchStep /\ outcome' \in {"fetch_error", "link_error"})
            => /\ urls_to_visit' = Tail(urls_to_visit)
               /\ pc' = "loop"
        /\ (FetchStep /\ current_url' \in failed)
            => /\ current_url' \notin visited_urls
               /\ current_url' = Head(urls_to_visit) ]_vars

C3_Witness ==
    /\ pc = "loop" /\ outcome = "fetch_error"
    /\ current_url \in failed /\ fetches >= 3
    /\ current_url \in Range(urls_to_visit)

\* C4: every call of scrape_documentation returns, and when it returns the
\* frontier is empty or the budget counter equals max_pages.
C4_Terminates ==
    (pc = "loop") ~> (pc = "done" /\ (urls_to_visit = <<>> \/ pages_scraped = max_pages))

C4_Witness ==
    /\ pc = "done" /\ failed # {}
    /\ urls_to_visit = <<>> /\ fetches >= 2 /\ pages_scraped < max_pages

\* C7 as claimed: whenever the except branch of scrape_page ran, the visited set
\* and the records are unchanged, nothing is enqueued and the budget counter went
\* up by one.
C7_FailureLeavesStateUnchanged ==
    [][ (FetchStep /\ outcome' \in {"fetch_error", "link_error"})
            => /\ visited_urls' = visited_urls
               /\ scraped_data' = scraped_data
               /\ urls_to_visit' = Tail(urls_to_visit)
               /\ pages_scraped' = pages_scraped + 1
               /\ pc' = "loop" ]_vars

\* C7 as amended: a failure raised before the record is stored (request, HTTP
\* status, HTML parsing, content extraction) leaves the visited set and the
\* records unchanged; a failure raised by link extraction comes after the URL was
\* marked visited and its record (if any) stored.  Either way nothing is
\* enqueued, the budget counter goes up by one and the loop goes on.
C7_FailureEffects ==
    [][ /\ (FetchStep /\ outcome' \in {"fetch_error", "link_error"})
            => /\ urls_to_visit' = Tail(urls_to_visit)
               /\ pages_scraped' = pages_scraped + 1
               /\ pc' = "loop"
        /\ (FetchStep /\ outcome' = "fetch_error")
            => /\ visited_urls' = visited_urls
               /\ scraped_data' = scraped_data
        /\ (FetchStep /\ outcome' = "link_error")
            => /\ visited_urls' = visited_urls \cup {current_url'}
               /\ current_url' \notin visited_urls
               /\ scraped_data' \in {scraped_data,
                                     Append(scraped_data, [url |-> current_url', content |-> "text"])}
      ]_vars

\* link extraction failed on a stored, visited page, after the fetch of another
\* URL had failed and left that URL unvisited
C7_Witness ==
    /\ pc = "loop" /\ outcome = "link_error"
    /\ current_url \in visited_urls
    /\ \E i \in 1..Len(scraped_data) : scraped_data[i].url = current_url
    /\ \E u \in failed : u \notin visited_urls

\* C8 as claimed: every call starts from an empty visited set, and a second call
\* given a budget fetches again.
C8_VisitedEmptyAtStart ==
    /\ outcome = "start" => visited_urls = {}
    /\ (pc = "done" /\ run >= 2 /\ max_pages >= 1) => fetches >= 1

\* C8 as amended: the visited set belongs to the scraper object; no step removes
\* a URL from it, a call leaves it as it was when it starts, and a later call that
\* finds the base URL visited discards it without a fetch and ends at once.
C8_VisitedOutlivesCall ==
    [][ /\ visited_urls \subseteq visited_urls'
        /\ outcome' = "start" => visited_urls' = visited_urls
        /\ (outcome = "start" /\ base_url \in visited_urls /\ max_pages >= 1)
            => outcome' = "skip" /\ urls_to_visit' = <<>> /\ fetches' = 0 ]_vars

C8_Witness ==
    /\ pc = "done" /\ run = 2 /\ max_pages >= 1
    /\ base_url \in visited_urls /\ fetches = 0 /\ current_url = base_url

\* C9: every URL a loop iteration appends to the frontier has the network
\* location of base_url, holds no '#' and no '?', and is not in the visited set at
\* that moment; every fetch goes to the network location of base_url.
C9_FrontierSameDomainClean ==
    [][ /\ (pc = "loop" /\ pc' = "loop")
            => \A i \in Len(urls_to_visit)..Len(urls_to_visit') :
                  /\ urlparse(urls_to_visit'[i]).netloc = urlparse(base_url).netloc
                  /\ "#" \notin Range(urls_to_visit'[i])
                  /\ "?" \notin Range(urls_to_visit'[i])
                  /\ urls_to_visit'[i] \notin visited_urls'
        /\ FetchStep => urlparse(current_url').netloc = urlparse(base_url).netloc ]_vars

\* the frontier holds the same unvisited URL twice
C9_Witness ==
    /\ pc = "loop"
    /\ \E i, j \in 1..Len(urls_to_visit) :
          /\ i < j /\ urls_to_visit[i] = urls_to_visit[j]
          /\ urls_to_visit[i] \notin visited_urls
          /\ urls_to_visit[i] # <<"https:", "//", "docs", "/", "a">>

\* C10: every record has non-empty content and a visited url, no two records
\* share a url, and the records stored by the running call are no more than its
\* budget counter.
C10_RecordsAdmitted ==
    /\ \A i \in 1..Len(scraped_data) :
          /\ scraped_data[i].content # ""
          /\ scraped_data[i].url \in visited_urls
    /\ \A i, j \in 1..Len(scraped_data) :
          scraped_data[i].url = scraped_data[j].url => i = j
    /\ Len(scraped_data) - data_at_start <= pages_scraped

\* a page without content was fetched: visited, its links enqueued, no record
C10_Witness ==
    /\ outcome = "ok" /\ current_url \in visited_urls
    /\ \A i \in 1..Len(scraped_data) : scraped_data[i].url # current_url
    /\ scraped_data # <<>>
    /\ urls_to_visit # <<>> /\ urls_to_visit[Len(urls_to_visit)] \notin visited_urls

----------------------------------------------------------------------------
(* DocBot.search_docs (src/server.py).  The strings of the search are sequences  *)
(* of characters.                                                               *)

\* str.lower()
lower(s) ==
    [i \in 1..Len(s) |-> CASE s[i] = "A" -> "a" [] s[i] = "B" -> "b" [] s[i] = "C" -> "c"
                           [] OTHER -> s[i]]

\* needle in haystack
IsSubstr(n, h) == \E i \in 0..(Len(h) - Len(n)) : SubSeq(h, i + 1, i + Len(n)) = n

\* haystack.count(needle): non-overlapping occurrences, left to right (needle non-empty)
RECURSIVE count(_, _)
count(h, n) ==
    IF Len(h) < Len(n) THEN 0
    ELSE IF SubSeq(h, 1, Len(n)) = n THEN 1 + count(SubSeq(h, Len(n) + 1, Len(h)), n)
    ELSE count(Tail(h), n)

\* str.split(): the maximal runs of non-whitespace characters
RECURSIVE split(_)
split(s) ==
    IF s = <<>> THEN <<>>
    ELSE IF Head(s) = " " THEN split(Tail(s))
    ELSE LET stop == IF FirstIdx(s, " ") = 0 THEN Len(s) + 1 ELSE FirstIdx(s, " ")
         IN  <<SubSeq(s, 1, stop - 1)>> \o split(SubSeq(s, stop, Len(s)))

\* sum of f[i] over i in 1..n
RECURSIVE SumTo(_, _)
SumTo(f, n) == IF n = 0 THEN 0 ELSE f[n] + SumTo(f, n - 1)

\* the score search_docs gives doc for the query q
score(doc, q) ==
    LET query_lower == lower(q)
        query_terms == split(query_lower)
        title == lower(doc.title)
        content == lower(doc.content)
        nt == Len(query_terms)
        title_terms == [k \in 1..nt |-> IF IsSubstr(query_terms[k], title) THEN 15 ELSE 0]
        frequency == [k \in 1..nt |-> IF Len(query_terms[k]) > 2
                                       THEN count(content, query_terms[k]) * 2 ELSE 0]
        heading == [h \in 1..Len(doc.headings) |->
                      LET heading_text == lower(doc.headings[h])
                      IN  (IF IsSubstr(query_lower, heading_text) THEN 8 ELSE 0)
                          + SumTo([k \in 1..nt |->
                                     IF IsSubstr(query_terms[k], heading_text) THEN 3 ELSE 0], nt)]
    IN  SumTo(title_terms, nt)
        + (IF IsSubstr(query_lower, title) THEN 20 ELSE 0)
        + (IF IsSubstr(query_lower, content) THEN 10 ELSE 0)
        + SumTo(frequency, nt)
        + SumTo(heading, Len(doc.headings))

\* the results list before sorting: corpus position and score of every doc with score > 0
RECURSIVE scored(_, _, _)
scored(docs, q, i) ==
    IF i > Len(docs) THEN <<>>
    ELSE (IF score(docs[i], q) > 0 THEN <<[doc |-> i, score |-> score(docs[i], q)]>> ELSE <<>>)
         \o scored(docs, q, i + 1)

Reverse(s) == [i \in 1..Len(s) |-> s[Len(s) + 1 - i]]

\* mutant of insert: x goes in front of the entries with its key
RECURSIVE insert_in_front(_, _)
insert_in_front(sorted, x) ==
    IF sorted = <<>> THEN <<x>>
    ELSE IF Head(sorted).score < x.score
         THEN <<Head(sorted)>> \o insert_in_front(Tail(sorted), x)
    ELSE <<x>> \o sorted

\* insertion of x into an ascending list, behind the entries whose key is not greater
RECURSIVE insert(_, _)
insert(sorted, x) ==
    IF sorted = <<>> THEN <<x>>
    ELSE IF Head(sorted).score <= x.score THEN <<Head(sorted)>> \o insert(Tail(sorted), x)
    ELSE <<x>> \o sorted

\* a stable ascending sort by score
RECURSIVE stable_sort(_)
stable_sort(s) ==
    IF s = <<>> THEN <<>> ELSE insert(stable_sort(SubSeq(s, 1, Len(s) - 1)), s[Len(s)])

\* results.sort(key=lambda x: x['score'], reverse=True): list.sort reverses the
\* list, sorts it stably in ascending order and reverses it again
sort_reverse(results) == Reverse(stable_sort(Reverse(results)))

\* search_docs(query, max_results), for max_results >= 0: the corpus positions of
\* the docs returned
search_docs(docs, q, n) ==
    LET results == sort_reverse(scored(docs, q, 1))
    IN  [k \in 1..(IF n < Len(results) THEN n ELSE Len(results)) |-> results[k].doc]

\* the records a corpus is built from: title, content and heading texts
DocPool == {
    [title |-> <<"A", "b", "c">>, content |-> <<"a", "b", "c", " ", "a", "b", "c">>,
     headings |-> <<>>],
    [title |-> <<"a", "b", "c">>, content |-> <<"A", "B", "C", " ", "a", "b", "c">>,
     headings |-> <<>>],
    [title |-> <<"c">>, content |-> <<"a", "b", " ", "c">>,
     headings |-> << <<"a", "b", "c">> >>],
    [title |-> <<>>, content |-> <<"b">>, headings |-> <<>>],
    [title |-> <<"a", "b">>, content |-> <<"c", "a", "b", "c", "a", "b", "c">>,
     headings |-> << <<"A", "b">>, <<"c">> >>] }

Queries == {
    <<"a", "b", "c">>,
    <<"A", "b">>,
    <<"a", "b", " ", "c">>,
    <<"c", " ", " ", "a", "b", "c">>,
    <<" ">>,
    <<>> }

Corpora == UNION {[1..n -> DocPool] : n \in 0..MaxDocs}

\* the call bot.search_docs(q, n) on the loaded corpus
Search(q, n) ==
    /\ ~searched
    /\ query' = q
    /\ max_results' = n
    /\ search_result' = search_docs(docs_data, q, n)
    /\ searched' = TRUE
    /\ UNCHANGED docs_data

\* load_docs() has read some corpus
SearchInit ==
    /\ CrawlInit
    /\ ChatIdle
    /\ docs_data \in Corpora
    /\ query = <<>>
    /\ max_results = 0
    /\ search_result = <<>>
    /\ searched = FALSE

SearchNext ==
    (\E q \in Queries, n \in 0..MaxResults : Search(q, n)) /\ UNCHANGED <<crawlVars, chatVars>>

SearchSpec == SearchInit /\ [][SearchNext]_vars

\* C5: search_docs returns the docs whose score is above 0, highest score first,
\* docs of equal score in corpus order, cut to the first max_results.
C5_RankedStableTruncated ==
    searched =>
        LET hits == {i \in 1..Len(docs_data) : score(docs_data[i], query) > 0}
            sc(i) == score(docs_data[i], query)
            before(i, j) == sc(i) > sc(j) \/ (sc(i) = sc(j) /\ i < j)
            res == search_result
        IN  /\ \A k \in 1..Len(res) : res[k] \in hits
            /\ \A k, l \in 1..Len(res) : k < l => before(res[k], res[l])
            /\ \A i \in hits : (\A k \in 1..Len(res) : res[k] # i)
                                  => \A k \in 1..Len(res) : before(res[k], i)
            /\ Len(res) = (IF max_results < Cardinality(hits)
                           THEN max_results ELSE Cardinality(hits))

\* two returned docs tie, a doc scoring 0 is left out and the cut drops a hit
C5_Witness ==
    /\ searched
    /\ Len(search_result) = max_results
    /\ \E k \in 1..(Len(search_result) - 1) :
          /\ score(docs_data[search_result[k]], query)
                = score(docs_data[search_result[k + 1]], query)
          /\ docs_data[search_result[k]] # docs_data[search_result[k + 1]]
    /\ \E i \in 1..Len(docs_data) : score(docs_data[i], query) = 0
    /\ \E i \in 1..Len(docs_data) :
          /\ score(docs_data[i], query) > 0
          /\ \A k \in 1..Len(search_result) : search_result[k] # i

----------------------------------------------------------------------------
(* The chat endpoint (src/server.py, chat).  Every request runs on a thread of   *)
(* its own; a step is one access to the shared sessions dict or a stretch of    *)
(* thread-local code, and the steps of different requests interleave freely.    *)
(* A session id is <<"uuid", n>> (the n-th uuid4 drawn), <<"client", 0>> (a      *)
(* string the server never issued) or <<"none", 0>> (absent or empty).          *)

Threads == 1..MaxRequests

Messages == {"", "hi"}

\* data = request.json; message = data.get('message', ''); session_id = data.get('session_id')
Receive(t, m, sid) ==
    /\ req[t].pc = "idle"
    /\ req' = [req EXCEPT ![t] = [pc |-> "check_message", message |-> m, session_id |-> sid]]
    /\ UNCHANGED <<sessions, next_uuid, log>>

\* if not message: return 400
CheckMessage(t) ==
    /\ req[t].pc = "check_message"
    /\ req' = [req EXCEPT ![t].pc = IF req[t].message = "" THEN "done400" ELSE "check_session"]
    /\ UNCHANGED <<sessions, next_uuid, log>>

\* if not session_id or session_id not in sessions:
CheckSession(t) ==
    /\ req[t].pc = "check_session"
    /\ LET unknown == req[t].session_id = <<"none", 0>>
                        \/ req[t].session_id \notin DOMAIN sessions
       IN  /\ req' = [req EXCEPT ![t].pc = IF unknown THEN "create" ELSE "respond"]
           /\ log' = [log EXCEPT ![t].unknown = unknown]
    /\ UNCHANGED <<sessions, next_uuid>>

\* mutant of CreateSession: the session is created under the id the client sent
CreateSessionUnderSentId(t) ==
    /\ req[t].pc = "create"
    /\ LET id == IF req[t].session_id = <<"none", 0>>
                 THEN <<"uuid", next_uuid + 1>> ELSE req[t].session_id
       IN  /\ next_uuid' = next_uuid + 1
           /\ sessions' = [k \in DOMAIN sessions \cup {id} |-> IF k = id THEN <<>> ELSE sessions[k]]
           /\ req' = [req EXCEPT ![t].pc = "respond", ![t].session_id = id]
           /\ log' = [log EXCEPT ![t].created = @ \cup {id}]

\* session_id = str(uuid.uuid4()); sessions[session_id] = {'created_at': ..., 'messages': []}
CreateSession(t) ==
    /\ req[t].pc = "create"
    /\ LET id == <<"uuid", next_uuid + 1>>
       IN  /\ next_uuid' = next_uuid + 1
           /\ sessions' = [k \in DOMAIN sessions \cup {id} |-> IF k = id THEN <<>> ELSE sessions[k]]
           /\ req' = [req EXCEPT ![t].pc = "respond", ![t].session_id = id]
           /\ log' = [log EXCEPT ![t].created = @ \cup {id}]

\* response, sources = bot.chat(message)
Respond(t) ==
    /\ req[t].pc = "respond"
    /\ req' = [req EXCEPT ![t].pc = "store"]
    /\ UNCHANGED <<sessions, next_uuid, log>>

\* sessions[session_id]['messages'].append({...}); return jsonify({'session_id': session_id, ...})
StoreMessage(t) ==
    /\ req[t].pc = "store"
    /\ sessions' = [sessions EXCEPT ![req[t].session_id] =
                        Append(@, [user |-> req[t].message, request |-> t])]
    /\ req' = [req EXCEPT ![t].pc = "done200"]
    /\ log' = [log EXCEPT ![t].stored = @ \cup {req[t].session_id}]
    /\ UNCHANGED next_uuid

\* the session ids a client can send: none, a string of its own, or an id the
\* server has issued
SessionIds == {<<"none", 0>>, <<"client", 0>>} \cup DOMAIN sessions

ChatInit == CrawlInit /\ SearchIdle /\ ChatIdle

ChatNext ==
    /\ \E t \in Threads :
          \/ \E m \in Messages, sid \in SessionIds : Receive(t, m, sid)
          \/ CheckMessage(t)
          \/ CheckSession(t)
          \/ CreateSession(t)
          \/ Respond(t)
          \/ StoreMessage(t)
    /\ UNCHANGED <<crawlVars, searchVars>>

ChatSpec == ChatInit /\ [][ChatNext]_vars

\* C6: under every interleaving, a request with a message and an unknown or
\* absent session id creates exactly one session, under an id no session had; a
\* request with a known id creates none; a request answered 200 has stored
\* exactly one message, in the session whose id it returns; a request answered
\* 400 has touched nothing; no session is removed and no stored message is lost
\* or overwritten.
C6_SessionsConsistent ==
    /\ [](\A t \in Threads :
            /\ req[t].pc \in {"respond", "store", "done200"}
                => /\ log[t].unknown => Cardinality(log[t].created) = 1
                                        /\ log[t].created = {req[t].session_id}
                   /\ ~log[t].unknown => log[t].created = {}
                   /\ req[t].session_id \in DOMAIN sessions
            /\ req[t].pc = "done200"
                => /\ log[t].stored = {req[t].session_id}
                   /\ Cardinality({i \in 1..Len(sessions[req[t].session_id]) :
                                     sessions[req[t].session_id][i].request = t}) = 1
                   /\ \A k \in DOMAIN sessions \ {req[t].session_id} :
                         \A i \in 1..Len(sessions[k]) : sessions[k][i].request # t
            /\ req[t].pc = "done400" => log[t] = NoLog
            /\ \A u \in Threads : t # u => log[t].created \cap log[u].created = {})
    /\ [][ /\ DOMAIN sessions \subseteq DOMAIN sessions'
           /\ \A k \in DOMAIN sessions :
                 /\ Len(sessions[k]) <= Len(sessions'[k])
                 /\ SubSeq(sessions'[k], 1, Len(sessions[k])) = sessions[k]
           /\ \A k \in DOMAIN sessions' \ DOMAIN sessions : sessions'[k] = <<>>
           /\ (\E t \in Threads : req[t].pc = "check_message" /\ req'[t].pc = "done400")
                 => sessions' = sessions ]_vars

\* one request created a session, another stored into that session and a third
\* got a 400
C6_Witness ==
    \E t, u, v \in Threads :
        /\ t # u /\ u # v /\ t # v
        /\ req[t].pc = "done200" /\ req[u].pc = "done200"
        /\ log[t].unknown /\ ~log[u].unknown
        /\ req[t].session_id = req[u].session_id
        /\ Len(sessions[req[t].session_id]) = 2
        /\ req[v].pc = "done400"

====
